---- MODULE Spec2Model ----
(***************************************************************************)
(* Model of app() in solace_system_streamlit.py: the fire-spread time grid *)
(* and polygon builder, and the risk assessment that follows it.           *)
(*                                                                         *)
(* Units.  The source works in floating point; the model keeps every       *)
(* quantity as an exact integer multiple of its smallest step:             *)
(*   radius        in 1/100 km      (0.05 km -> 5, 0.2 km/h -> 20)          *)
(*   wind_factor   in 1/10          (wind_speed / 10 -> wind_speed)         *)
(*   wind_effect   in 1/1000        (wind_factor * t * 0.01 -> ws * t)      *)
(*   factor        in 1/1000        (1.0 -> 1000)                           *)
(*   displacement  in 1/100000 km   (radius * factor)                       *)
(* A vertex is kept in polar form <<angle, radius * factor>>; lines 91-96   *)
(* map it to (lon, lat) by cos/sin and an affine change of units, which is  *)
(* one-to-one on vertices of positive displacement.                         *)
(* Calls into streamlit, folium and branca are taken to return normally.    *)
(***************************************************************************)
EXTENDS Integers, Sequences, FiniteSets

VARIABLES pc, days, hours_per_step, wind_direction, wind_speed,
          day, hour, elapsed_hours, radius, wind_effect,
          features, error, risk_level, call, ret

vars == <<pc, days, hours_per_step, wind_direction, wind_speed,
          day, hour, elapsed_hours, radius, wind_effect,
          features, error, risk_level, call, ret>>

(* ---------------- inputs ---------------- *)

\* st.sidebar.slider("Simulation Days", 1, 7, 3)
DaysRange == 1..7

\* st.sidebar.slider("Hours per Step", 1, 12, 6)
HoursPerStepRange == 1..12

\* st.sidebar.slider("Wind Direction (degrees)", 0, 359, 225)
WindDirectionRange == 0..359

\* st.sidebar.slider("Wind Speed (mph)", 0, 30, 15)
WindSpeedRange == 0..30

\* How far below the slider minimum a caller-supplied days / hours_per_step
\* may lie when the build pass is fed without the sliders.
InvalidDepth == 2

CallerDaysRange == (1 - InvalidDepth)..7

CallerHoursPerStepRange == (1 - InvalidDepth)..12

(* ---------------- local variables ---------------- *)

\* A local name that has not been assigned yet is the empty sequence, an
\* assigned one is the one-element sequence of its value.
Unbound == <<>>

Bound(v) == <<v>>

IsBound(x) == Len(x) = 1

ValueOf(x) == x[1]

(* ---------------- pure helpers ---------------- *)

Abs(x) == IF x < 0 THEN -x ELSE x

\* Python range(start, stop, step) for step # 0, as a sequence.
PyRange(start, stop, step) ==
    IF step > 0
    THEN IF stop > start
         THEN [i \in 1..((stop - start + step - 1) \div step) |-> start + (i - 1) * step]
         ELSE <<>>
    ELSE IF stop < start
         THEN [i \in 1..((start - stop - step - 1) \div (-step)) |-> start + (i - 1) * step]
         ELSE <<>>

\* range(days + 1)
DayRange(d) == PyRange(0, d + 1, 1)

\* range(0, 24, hours_per_step); hours_per_step = 0 raises ValueError instead
HourRange(h) == PyRange(0, 24, h)

\* range(0, 360, 10)
SampleBearings == PyRange(0, 360, 10)

\* base_spread_rate = 0.2 km per hour, in 1/100 km per hour
base_spread_rate == 20

\* radius = 0.05 km of the initial small fire, in 1/100 km
ignition_radius == 5

\* start_time = datetime.datetime(2023, 5, 1, 0, 0) as <<year, month, day, hour, minute>>
start_time == <<2023, 5, 1, 0, 0>>

\* start_time + timedelta(days = d, hours = h), then strftime("%Y-%m-%d %H:%M:%S"),
\* as <<year, month, day, hour, minute, second>>.  The carry from hours into
\* days is the timedelta's; the month does not roll over for d <= 7.
TimeStr(d, h) ==
    LET total == start_time[4] + h IN
    <<start_time[1], start_time[2], start_time[3] + d + (total \div 24),
      total % 24, start_time[5], 0>>


(* ---------------- spread model ---------------- *)

\* Radius with the ignition radius a digit off (0.5 km for 0.05 km).
Radius_IgnitionTenfold(d, h) ==
    IF d = 0 /\ h = 0
    THEN 50
    ELSE (d * 24 + h) * base_spread_rate

\* Lines 66-74: radius of the fire at time step (d, h), in 1/100 km.
Radius(d, h) ==
    IF d = 0 /\ h = 0
    THEN ignition_radius
    ELSE (d * 24 + h) * base_spread_rate

\* Lines 33 and 78: wind_effect = (wind_speed / 10) * elapsed_hours * 0.01,
\* in 1/1000.
WindEffect(ws, eh) == ws * eh

\* Downwind without the second disjunct, the one that covers the 0/360 seam.
Downwind_NoSeam(angle, wd) ==
    Abs(angle - wd) < 90

\* Line 88: the test that decides whether a sample bearing is elongated.
Downwind(angle, wd) ==
    Abs(angle - wd) < 90 \/ Abs(angle - wd) > 270

\* Lines 87-89 read wind_effect exactly when the test of line 88 holds for
\* the bearing; reading it before any assignment raises UnboundLocalError.
ReadsUnbound(we, wd) ==
    ~IsBound(we) /\ \E i \in 1..Len(SampleBearings) : Downwind(SampleBearings[i], wd)

\* Lines 87-89: factor of one sample bearing, in 1/1000 (we is bound whenever
\* it is read).
Factor(angle, we, wd) ==
    IF Downwind(angle, wd) THEN 1000 + ValueOf(we) ELSE 1000

\* Lines 82-101: the 36 sampled vertices, then the first one repeated.
Points(r, we, wd) ==
    LET sampled == [i \in 1..Len(SampleBearings) |->
                      <<SampleBearings[i], r * Factor(SampleBearings[i], we, wd)>>]
    IN  Append(sampled, sampled[1])

\* Line 108: intensity = day / days if days > 0 else 0, as <<numerator, denominator>>.
Intensity(d, ds) == IF ds > 0 THEN <<d, ds>> ELSE <<0, 1>>

\* Lines 112-138: the feature of one time step.
Feature(d, h, ds, r, we, wd) ==
    [time      |-> TimeStr(d, h),
     day       |-> d,
     hour      |-> h,
     intensity |-> Intensity(d, ds),
     points    |-> Points(r, we, wd)]

\* RiskLevel with the two branches in the other order.
RiskLevel_ModerateFirst(wd, ws) ==
    IF ws > 20
    THEN "Moderate"
    ELSE IF wd > 180 /\ wd < 270 /\ ws > 10 THEN "High" ELSE "Low"

\* Lines 181-185: risk assessment.
RiskLevel(wd, ws) ==
    IF wd > 180 /\ wd < 270 /\ ws > 10
    THEN "High"
    ELSE IF ws > 20 THEN "Moderate" ELSE "Low"

(* ---------------- app() ---------------- *)

Init ==
    /\ pc = "sliders"
    /\ days = 0
    /\ hours_per_step = 0
    /\ wind_direction = 0
    /\ wind_speed = 0
    /\ day = 0
    /\ hour = 0
    /\ elapsed_hours = Unbound
    /\ radius = Unbound
    /\ wind_effect = Unbound
    /\ features = <<>>
    /\ error = "none"
    /\ risk_level = "unset"
    /\ call = [fn |-> "app"]
    /\ ret = <<>>

\* Lines 141-187 once the time grid is exhausted: the layer is handed the
\* features as they are and the risk level is assessed.
Summary ==
    /\ pc' = "done"
    /\ risk_level' = RiskLevel(wind_direction', wind_speed')
    /\ error' = "none"

\* Lines 26-27 with the two inputs given.
SetSimulation(ds, hps) ==
    /\ days' = ds
    /\ hours_per_step' = hps
    /\ pc' = "wind"
    /\ UNCHANGED <<wind_direction, wind_speed, day, hour, elapsed_hours, radius,
                   wind_effect, features, error, risk_level, call, ret>>

\* Lines 26-27: days and hours_per_step as the sliders deliver them.
SimulationSliders ==
    /\ pc = "sliders"
    /\ \E ds \in DaysRange, hps \in HoursPerStepRange : SetSimulation(ds, hps)

\* Lines 28-65: the wind sliders are read, the locals are set up and the
\* loops of lines 64-65 are entered.  range(days + 1) may be empty; if it is
\* not, range(0, 24, hours_per_step) is evaluated for day 0 and raises
\* ValueError for a step of 0; if that range is empty, the outer loop runs
\* through every day without a pass of the body and leaves day at the last
\* element of range(days + 1).
WindSliders ==
    /\ pc = "wind"
    /\ \E wd \in WindDirectionRange, ws \in WindSpeedRange :
          /\ wind_direction' = wd
          /\ wind_speed' = ws
    /\ features' = <<>>
    /\ hour' = 0
    /\ UNCHANGED <<days, hours_per_step, elapsed_hours, radius, wind_effect, call, ret>>
    /\ IF Len(DayRange(days)) = 0
       THEN /\ day' = 0
            /\ Summary
       ELSE IF hours_per_step = 0
            THEN /\ day' = DayRange(days)[1]
                 /\ pc' = "error"
                 /\ error' = "ValueError"
                 /\ UNCHANGED risk_level
            ELSE IF Len(HourRange(hours_per_step)) = 0
                 THEN /\ day' = DayRange(days)[Len(DayRange(days))]
                      /\ Summary
                 ELSE /\ day' = DayRange(days)[1]
                      /\ pc' = "build"
                      /\ UNCHANGED <<error, risk_level>>

\* Lines 64-139: one pass of the loop body, for time step (day, hour), and the
\* move to the next time step; after the last one, lines 141-187.
TimeStep ==
    /\ pc = "build"
    /\ LET ignition == day = 0 /\ hour = 0
           eh == IF ignition THEN elapsed_hours ELSE Bound(day * 24 + hour)
           we == IF ignition THEN wind_effect
                 ELSE Bound(WindEffect(wind_speed, day * 24 + hour))
           r  == Radius(day, hour)
       IN  /\ elapsed_hours' = eh
           /\ wind_effect' = we
           /\ radius' = Bound(r)
           /\ UNCHANGED <<days, hours_per_step, wind_direction, wind_speed, call, ret>>
           /\ IF ReadsUnbound(we, wind_direction)
              THEN /\ pc' = "error"
                   /\ error' = "UnboundLocalError"
                   /\ UNCHANGED <<features, day, hour, risk_level>>
              ELSE /\ features' = Append(features,
                        Feature(day, hour, days, r, we, wind_direction))
                   /\ IF hour + hours_per_step < 24
                      THEN /\ hour' = hour + hours_per_step
                           /\ UNCHANGED <<day, pc, error, risk_level>>
                      ELSE IF day < days
                           THEN /\ day' = day + 1
                                /\ hour' = 0
                                /\ UNCHANGED <<pc, error, risk_level>>
                           ELSE /\ Summary
                                /\ UNCHANGED <<day, hour>>

Next == SimulationSliders \/ WindSliders \/ TimeStep

Spec == Init /\ [][Next]_vars

\* Lines 26-27 replaced by a caller that is not held to the slider minimums.
CallerSimulation ==
    /\ pc = "sliders"
    /\ \E ds \in CallerDaysRange, hps \in CallerHoursPerStepRange : SetSimulation(ds, hps)

NextCaller == CallerSimulation \/ WindSliders \/ TimeStep

SpecCaller == Init /\ [][NextCaller]_vars

(* ---------------- the pure functions, applied on their own ---------------- *)

\* Lines 64-65: the time steps in the order the nested loops visit them.
GridSteps(ds, hps) ==
    LET dayseq  == DayRange(ds)
        hourseq == HourRange(hps)
        n       == Len(hourseq)
    IN  [k \in 1..(Len(dayseq) * n) |->
            <<dayseq[((k - 1) \div n) + 1], hourseq[((k - 1) % n) + 1]>>]

\* Line 71: elapsed_hours of a time step <<day, hour>>.
ElapsedHours(step) == step[1] * 24 + step[2]

\* The elements of a sequence.
Elements(seq) == {seq[i] : i \in 1..Len(seq)}

\* Radius is applied to two time steps of the grid of one configuration.
InitRadius ==
    \E ds \in DaysRange, hps \in HoursPerStepRange :
        /\ days = ds
        /\ hours_per_step = hps
        /\ wind_direction = 0
        /\ wind_speed = 0
        /\ \E d1, d2 \in Elements(DayRange(ds)), h1, h2 \in Elements(HourRange(hps)) :
              call = [fn |-> "Radius", args |-> <<<<d1, h1>>, <<d2, h2>>>>]

\* Downwind is applied to one sample bearing and one wind direction.
InitDownwind ==
    \E angle \in Elements(SampleBearings), wd \in WindDirectionRange :
        /\ days = 0
        /\ hours_per_step = 0
        /\ wind_direction = wd
        /\ wind_speed = 0
        /\ call = [fn |-> "Downwind", args |-> <<angle, wd>>]

\* RiskLevel is applied to one wind direction and one wind speed.
InitRiskLevel ==
    \E wd \in WindDirectionRange, ws \in WindSpeedRange :
        /\ days = 0
        /\ hours_per_step = 0
        /\ wind_direction = wd
        /\ wind_speed = ws
        /\ call = [fn |-> "RiskLevel", args |-> <<wd, ws>>]

InitFn ==
    /\ pc = "call"
    /\ ret = <<>>
    /\ day = 0
    /\ hour = 0
    /\ elapsed_hours = Unbound
    /\ radius = Unbound
    /\ wind_effect = Unbound
    /\ features = <<>>
    /\ error = "none"
    /\ risk_level = "unset"
    /\ (InitRadius \/ InitDownwind \/ InitRiskLevel)

AppUnchanged ==
    UNCHANGED <<days, hours_per_step, wind_direction, wind_speed, day, hour,
                elapsed_hours, radius, wind_effect, features, error, risk_level, call>>

\* Lines 66-74 evaluated at two time steps of one grid.
ApplyRadius ==
    /\ pc = "call"
    /\ call.fn = "Radius"
    /\ ret' = <<Radius(call.args[1][1], call.args[1][2]),
                Radius(call.args[2][1], call.args[2][2])>>
    /\ pc' = "returned"
    /\ AppUnchanged

\* Line 88 evaluated at one sample bearing and one wind direction.
ApplyDownwind ==
    /\ pc = "call"
    /\ call.fn = "Downwind"
    /\ ret' = Downwind(call.args[1], call.args[2])
    /\ pc' = "returned"
    /\ AppUnchanged

\* Lines 181-185 evaluated at one wind direction and one wind speed.
ApplyRiskLevel ==
    /\ pc = "call"
    /\ call.fn = "RiskLevel"
    /\ ret' = RiskLevel(call.args[1], call.args[2])
    /\ pc' = "returned"
    /\ AppUnchanged

NextFn == ApplyRadius \/ ApplyDownwind \/ ApplyRiskLevel

SpecFn == InitFn /\ [][NextFn]_vars


(* ---------------- properties ---------------- *)

\* app() has returned or raised.
Ended == pc \in {"done", "error"}

\* The loop body has been run for the ignition time step (day 0, hour 0).
IgnitionStepDone == Ended \/ (pc = "build" /\ ~(day = 0 /\ hour = 0))

\* The time grid of the configuration in force.
Grid == GridSteps(days, hours_per_step)

\* Hours between start_time and a formatted timestamp of the same month.
HoursSinceStart(ts) == (ts[3] - start_time[3]) * 24 + (ts[4] - start_time[4])

\* C1: once the ignition time step (day 0, hour 0) has been processed, the
\* radius is 0.05 km, windEffect is 0, and the seed polygon has been built
\* with every one of the 36 sample bearings at a factor of exactly 1.0.
C1_IgnitionSeedBuilt ==
    IgnitionStepDone =>
        /\ Len(features) >= 1
        /\ features[1].day = 0
        /\ features[1].hour = 0
        /\ \A i \in 1..36 : features[1].points[i][2] = 5 * 1000
        /\ (Len(features) = 1 => radius = Bound(5) /\ wind_effect = Bound(0))

\* C2: when the build pass has finished, the features list holds exactly
\* (totalDays + 1) * ceil(24 / hoursPerStep) * zoneCount entries, zoneCount = 1.
C2_FeatureCount ==
    Ended =>
        Len(features) = (days + 1) * ((24 + hours_per_step - 1) \div hours_per_step) * 1

\* C3: the polygon of every time step of the grid, the ignition step
\* included, is appended with exactly 37 vertices, the last one identical to
\* the first.
C3_PolygonClosed ==
    Ended =>
        /\ \A k \in 1..Len(features) :
              /\ Len(features[k].points) = 37
              /\ features[k].points[37] = features[k].points[1]
        /\ \A k \in 1..Len(Grid) :
              \E i \in 1..Len(features) :
                  /\ <<features[i].day, features[i].hour>> = Grid[k]
                  /\ Len(features[i].points) = 37

\* C4: the features list is built in lexicographic (day, hour) order without
\* reordering or duplicates: the k-th feature is the one of the k-th time
\* step, it carries the timestamp start + day days + hour hours, and both the
\* (day, hour) pairs and the timestamps strictly increase along the list.
C4_EmissionOrder ==
    Ended =>
        /\ \A k \in 1..Len(Grid) :
              /\ k <= Len(features)
              /\ <<features[k].day, features[k].hour>> = Grid[k]
              /\ HoursSinceStart(features[k].time) = Grid[k][1] * 24 + Grid[k][2]
        /\ \A i, j \in 1..Len(features) :
              i < j =>
                  /\ \/ features[i].day < features[j].day
                     \/ /\ features[i].day = features[j].day
                        /\ features[i].hour < features[j].hour
                  /\ HoursSinceStart(features[i].time) < HoursSinceStart(features[j].time)

\* C7: with windSpeed = 0, the polygon built at every time step of the grid
\* has all 36 sample bearings displaced by radius * 1.0, the radius being
\* 0.05 km at ignition and elapsedHours * 0.2 km afterwards.
C7_CalmIsRegular ==
    (Ended /\ wind_speed = 0) =>
        \A k \in 1..Len(Grid) :
            /\ k <= Len(features)
            /\ \A i \in 1..36 :
                  features[k].points[i][2] =
                      (IF k = 1 THEN 5 ELSE 20 * ElapsedHours(Grid[k])) * 1000

\* C10: the features of any two consecutive time steps are both emitted and
\* their timestamps lie at least 1 hour and at most hoursPerStep hours apart:
\* hoursPerStep within a day, 24 minus the last hour at the rollover to the
\* next day, which is hoursPerStep exactly when hoursPerStep divides 24.
C10_TimestampGaps ==
    Ended =>
        \A k \in 1..(Len(Grid) - 1) :
            /\ k + 1 <= Len(features)
            /\ LET gap == HoursSinceStart(features[k + 1].time)
                            - HoursSinceStart(features[k].time)
               IN  /\ gap >= 1
                   /\ gap <= hours_per_step
                   /\ (features[k + 1].day = features[k].day => gap = hours_per_step)
                   /\ (features[k + 1].day # features[k].day =>
                          /\ gap = 24 - features[k].hour
                          /\ (gap = hours_per_step <=> 24 % hours_per_step = 0))

\* C9: a build pass given totalDays < 1 or hoursPerStep < 1 ends in an
\* InvalidConfiguration error with no feature appended.
C9_InvalidConfigurationFailsFast ==
    (Ended /\ (days < 1 \/ hours_per_step < 1)) =>
        /\ pc = "error"
        /\ error = "InvalidConfiguration"
        /\ features = <<>>

\* C5: for two time steps of one grid with elapsed hours t2 > t1 >= 0, the
\* radius of the later step is strictly greater than that of the earlier one,
\* and a step with t > 0 has radius t * 0.2 km.
C5_RadiusStrictlyIncreasing ==
    (pc = "returned" /\ call.fn = "Radius") =>
        LET t1 == ElapsedHours(call.args[1])
            t2 == ElapsedHours(call.args[2])
        IN  /\ (t2 > t1 => ret[2] > ret[1])
            /\ (t2 > 0 => ret[2] = t2 * 20)

\* C5 witness: the ignition step against the smallest possible next step,
\* hour 1 of day 0 with hoursPerStep = 1.
C5_IgnitionThenFirstHour ==
    /\ pc = "returned"
    /\ call.fn = "Radius"
    /\ hours_per_step = 1
    /\ call.args = <<<<0, 0>>, <<0, 1>>>>
    /\ ret = <<5, 20>>

\* The wrapped circular-distance test of the angle between two bearings.
WrappedDownwind(angle, wd) ==
    LET d == Abs(angle - wd)
        m == IF d < 360 - d THEN d ELSE 360 - d
    IN  m < 90

\* C6 as stated: among the sample bearings and the wind directions 0..359 the
\* test of line 88 has been applied to, some pair gets different answers from
\* the raw test and from the wrapped test.
C6_RawTestDiffersFromWrapped ==
    (pc = "returned" /\ call.fn = "Downwind") =>
        \E angle \in Elements(SampleBearings), wd \in WindDirectionRange :
            Downwind(angle, wd) # WrappedDownwind(angle, wd)

\* C6 amended: for every sample bearing and every wind direction 0..359 the
\* raw test of line 88 gives the answer of the wrapped circular-distance test.
C6_RawTestIsWrappedTest ==
    (pc = "returned" /\ call.fn = "Downwind") =>
        ret = WrappedDownwind(call.args[1], call.args[2])

\* C6 witness: bearing 0 against wind direction 350, 10 degrees apart across
\* the 0/360 seam, found downwind.
C6_AcrossTheSeam ==
    /\ pc = "returned"
    /\ call.fn = "Downwind"
    /\ call.args = <<0, 350>>
    /\ ret = TRUE

\* C8: the risk level is High exactly when 180 < windDirectionDeg < 270 and
\* windSpeed > 10, otherwise Moderate exactly when windSpeed > 20, otherwise
\* Low; (225, 15) and (225, 25) are High, (90, 25) Moderate, (90, 5) Low, and
\* directions 180 and 270 are never High.
C8_RiskRuleTable ==
    (pc = "returned" /\ call.fn = "RiskLevel") =>
        LET wd   == call.args[1]
            ws   == call.args[2]
            high == 180 < wd /\ wd < 270 /\ ws > 10
        IN  /\ ret \in {"High", "Moderate", "Low"}
            /\ (ret = "High" <=> high)
            /\ (ret = "Moderate" <=> (~high /\ ws > 20))
            /\ (ret = "Low" <=> (~high /\ ws <= 20))
            /\ (call.args \in {<<225, 15>>, <<225, 25>>} => ret = "High")
            /\ (call.args = <<90, 25>> => ret = "Moderate")
            /\ (call.args = <<90, 5>> => ret = "Low")
            /\ (wd \in {180, 270} => ret # "High")

\* C8 witness: both rules match (225, 25) and High, checked first, wins.
C8_HighBeforeModerate ==
    /\ pc = "returned"
    /\ call.fn = "RiskLevel"
    /\ call.args = <<225, 25>>
    /\ ret = "High"

====
